---- MODULE Spec2Model ----
(***************************************************************************)
(* Cicerone: the itinerary services (generateItinerary, refineItinerary,   *)
(* recalculateDaySchedule, analyzeSocialContent) and the App handlers that *)
(* call them and write their results back.                                 *)
(*                                                                         *)
(* JavaScript values are encoded as strings: the booleans are "true" and   *)
(* "false", undefined is "undefined", and a property an object does not    *)
(* have is "<absent>".  An activity is a record over ActivityFields.  The  *)
(* text of a completion response is represented by what                    *)
(* JSON.parse(cleanJson(text)) makes of it: a syntax error, a value that   *)
(* is not of the expected shape, or the parsed object.                     *)
(***************************************************************************)
EXTENDS Integers, Sequences, FiniteSets, TLC

VARIABLES
    itinerary,      \* App state: the displayed itinerary, or Null
    isLoading,      \* App state: a generate call is awaited
    isRefining,     \* App state: a refine call is awaited
    refinePrompt,   \* App state: text of the quick refine bar
    savedPlans,     \* App state: the saved-plan list
    user,           \* App state: the authenticated user, or NoUser
    localStorage,   \* localStorage['cicerone_saved_plans'], or NoItem
    cloud,          \* rows of the cloud table 'itineraries', newest first
    inflight,       \* the handler suspended at its await, with its closure
    reschedule,     \* handleReorderActivities suspended at its await, with its closure
    cloudLoad,      \* loadCloudPlans suspended at its await
    last            \* the last service call: arguments, response, outcome

vars == <<itinerary, isLoading, isRefining, refinePrompt, savedPlans, user,
          localStorage, cloud, inflight, reschedule, cloudLoad, last>>

-----------------------------------------------------------------------------
(* Bounds *)

\* most days in an itinerary sent by the completion service
MaxDays == 2
\* most activities, over all days, in such an itinerary or in a day list
MaxActs == 2
\* most entries in the array of updates a reschedule response holds
MaxUpdates == 2
\* most items the user adds to a wishlist
MaxWishlist == 1
\* most tokens in a text handed to cleanJson
MaxText == 5
\* most tokens between the quotes of a JSON string handed to cleanJson
MaxString == 5

-----------------------------------------------------------------------------
(* JavaScript values *)

Absent == "<absent>"
Undefined == "undefined"
JsTrue == "true"
JsFalse == "false"

\* the value a property read yields
Read(v) == IF v = Absent THEN Undefined ELSE v

\* !v
Falsy(v) == Read(v) \in {Undefined, JsFalse, "", "null", "0"}

Null == [null |-> TRUE]
NoUser == [null |-> TRUE]
NoItem == [null |-> TRUE]

Resolved(v) == [status |-> "resolved", value |-> v]
Rejected(e) == [status |-> "rejected", error |-> e]

RECURSIVE SeqsUpTo(_, _)
\* the sequences over S of length at most n
SeqsUpTo(S, n) ==
    IF n = 0 THEN {<<>>}
    ELSE LET shorter == SeqsUpTo(S, n - 1)
         IN  shorter \cup {Append(s, x) : s \in {t \in shorter : Len(t) = n - 1}, x \in S}

-----------------------------------------------------------------------------
(* Activities, days, itineraries *)

ActivityFields ==
    {"id", "time", "title", "transportToNext", "imageUrl",
     "isLocked", "isMandatory", "userNotes", "feedback", "actualCost",
     "selectedTransport"}

UserOwnedFields ==
    {"isLocked", "isMandatory", "userNotes", "feedback", "actualCost",
     "selectedTransport"}

RECURSIVE Flatten(_)
\* days.forEach(d => d.activities.forEach(...)): the activities in visiting order
Flatten(days) ==
    IF days = <<>> THEN <<>>
    ELSE Head(days).activities \o Flatten(Tail(days))

Activities(it) == Flatten(it.days)

ActivitySet(it) == {Activities(it)[k] : k \in 1..Len(Activities(it))}

\* the position of days[i].activities[j] in the visiting order
FlatIndex(days, i, j) == Len(Flatten(SubSeq(days, 1, i - 1))) + j

\* Object.assign(target, source): every own property of source is copied
ObjectAssign(target, source) ==
    [f \in DOMAIN target |-> IF source[f] # Absent THEN source[f] ELSE target[f]]

\* { ...object, ...updates }
Spread(object, updates) == ObjectAssign(object, updates)

\* JSON.stringify then JSON.parse of an activity: undefined properties are dropped
StringifyActivity(a) ==
    [f \in DOMAIN a |-> IF a[f] = Undefined THEN Absent ELSE a[f]]

StringifyDays(days) ==
    [i \in 1..Len(days) |->
        [days[i] EXCEPT !.activities =
            [j \in 1..Len(days[i].activities) |-> StringifyActivity(days[i].activities[j])]]]

\* JSON.stringify(plans), as JSON.parse reads it back
JsonStringify(plans) ==
    [k \in 1..Len(plans) |-> [plans[k] EXCEPT !.days = StringifyDays(plans[k].days)]]

\* what localStorage.getItem returns after setItem(key, value); NoItem before
Stored(value) == [value |-> value]

-----------------------------------------------------------------------------
(* What the completion service can send for an itinerary *)

\* an activity as the service writes it when it echoes the schema's required
\* fields only
PlainActivity(id) ==
    [id |-> id, time |-> "09:00", title |-> "Castle Tour",
     transportToNext |-> "Walk: 15m (Free)", imageUrl |-> Absent,
     isLocked |-> Absent, isMandatory |-> Absent, userNotes |-> Absent,
     feedback |-> Absent, actualCost |-> Absent, selectedTransport |-> Absent]

\* an activity for which the service fills every field, the user-owned ones too
LoadedActivity(id) ==
    [id |-> id, time |-> "13:00", title |-> "Brunch",
     transportToNext |-> "Taxi: 5m ($12)", imageUrl |-> "https://img/1.png",
     isLocked |-> JsTrue, isMandatory |-> JsTrue, userNotes |-> "note by AI",
     feedback |-> "like", actualCost |-> "99", selectedTransport |-> "Taxi: 5m ($12)"]

CandidateActivities ==
    {PlainActivity("a1"), LoadedActivity("a1"), LoadedActivity("a2"), PlainActivity(Absent)}

RECURSIVE DayListsWithin(_, _, _)
\* the sequences of at most n activity lists over S holding at most budget activities
DayListsWithin(S, n, budget) ==
    IF n = 0 THEN {<<>>}
    ELSE {<<>>} \cup
         UNION {{<<first>> \o rest : rest \in DayListsWithin(S, n - 1, budget - Len(first))} :
                first \in SeqsUpTo(S, budget)}

DaysOf(lists) == [i \in 1..Len(lists) |-> [dayNumber |-> i, activities |-> lists[i]]]

CandidateDays == {DaysOf(lists) : lists \in DayListsWithin(CandidateActivities, MaxDays, MaxActs)}

\* the object JSON.parse returns for an itinerary-shaped response
Candidate(id, days) ==
    [id |-> id, destination |-> "Lisbon", days |-> days,
     logistics |-> "logistics-by-AI", wishlist |-> <<"wish-by-AI">>]

ItineraryCandidates == {Candidate(id, days) : id \in {Absent, "id-by-AI"}, days \in CandidateDays}

\* a parsed object without the destination property, and one without days
WithoutDestination(days) == [Candidate("id-by-AI", days) EXCEPT !.destination = Absent]
WithoutDays ==
    [id |-> "id-by-AI", destination |-> "Lisbon", logistics |-> "logistics-by-AI",
     wishlist |-> <<"wish-by-AI">>]

NoData == [none |-> TRUE]

\* a completion call for an itinerary: it throws; its text is empty; the text is
\* not JSON; the text is JSON that is no object (null, a scalar, an array), or an
\* object whose days are no array of days with activities; or it is an itinerary
\* candidate
FailedResponses == [kind : {"throws", "empty", "unparseable", "malformed"}, data : {NoData}]

ItineraryResponses == FailedResponses \cup [kind : {"json"}, data : ItineraryCandidates]

\* data.days, undefined for a parsed object that has no days
HasDays(data) == "days" \in DOMAIN data

\* the responses the App is run against from its first render on
SessionDays ==
    {<<>>,
     DaysOf(<< <<PlainActivity("a1"), LoadedActivity("a2")>> >>),
     DaysOf(<< <<LoadedActivity("a1")>>, <<PlainActivity(Absent)>> >>),
     DaysOf(<< <<PlainActivity("a1")>>, <<>> >>)}

SessionResponses ==
    FailedResponses
    \cup [kind : {"json"}, data : {Candidate("id-by-AI", days) : days \in SessionDays}]
    \cup [kind : {"json"}, data : {Candidate(Absent, <<>>)}]

GeneratedIds == {"g1", "g2"}

\* the ids an activity of the displayed itinerary can carry
ActivityIds == {"a1", "a2", Undefined} \cup GeneratedIds

TripInputs == [destination : {"Lisbon"}, logistics : {"logistics-by-user"}]

-----------------------------------------------------------------------------
(* generateItinerary *)

HydrateActivity_asSent(act, random) ==
    [act EXCEPT !.isLocked = IF Falsy(act.isLocked) THEN JsFalse ELSE act.isLocked,
                !.userNotes = ""]

\* the body of day.activities.forEach(act => ...) in generateItinerary; random is
\* Math.random().toString(36).substr(2, 9)
HydrateActivity(act, random) ==
    [act EXCEPT !.feedback = "neutral",
                !.isLocked = IF Falsy(act.isLocked) THEN JsFalse ELSE act.isLocked,
                !.isMandatory = JsFalse,
                !.userNotes = "",
                !.id = IF Falsy(act.id) THEN random ELSE act.id]

Hydrate_asSent(data, input, randoms) ==
    [data EXCEPT
        !.days = [i \in 1..Len(data.days) |->
                    [data.days[i] EXCEPT !.activities =
                        [j \in 1..Len(data.days[i].activities) |->
                            HydrateActivity(data.days[i].activities[j],
                                            randoms[FlatIndex(data.days, i, j)])]]]]

\* the client-side hydration of the parsed data; randoms[p] is the random id
\* drawn for the p-th activity visited
Hydrate(data, input, randoms) ==
    [data EXCEPT
        !.logistics = input.logistics,
        !.wishlist = <<>>,
        !.days = [i \in 1..Len(data.days) |->
                    [data.days[i] EXCEPT !.activities =
                        [j \in 1..Len(data.days[i].activities) |->
                            HydrateActivity(data.days[i].activities[j],
                                            randoms[FlatIndex(data.days, i, j)])]]]]

generateItinerary_lenient(input, response, randoms) ==
    CASE response.kind = "throws" -> Rejected("completion call failed")
      [] response.kind \in {"empty", "unparseable", "malformed"} ->
            Resolved(Hydrate(Candidate(Absent, <<>>), input, randoms))
      [] response.kind = "json" /\ ~HasDays(response.data) -> Rejected("TypeError")
      [] OTHER -> Resolved(Hydrate(response.data, input, randoms))

generateItinerary(input, response, randoms) ==
    CASE response.kind = "throws" -> Rejected("completion call failed")
      [] response.kind = "empty" -> Rejected("No response from AI")
      [] response.kind = "unparseable" -> Rejected("SyntaxError")
      [] response.kind = "malformed" -> Rejected("TypeError")
      [] response.kind = "json" /\ ~HasDays(response.data) -> Rejected("TypeError")
      [] OTHER -> Resolved(Hydrate(response.data, input, randoms))

-----------------------------------------------------------------------------
(* refineItinerary *)

\* oldActivityMap: a later activity with the same id replaces an earlier one
OldActivityMap(currentItinerary) ==
    LET acts == Activities(currentItinerary)
        keys == {Read(acts[k].id) : k \in 1..Len(acts)}
    IN  [key \in keys |->
            acts[CHOOSE k \in 1..Len(acts) :
                    /\ Read(acts[k].id) = key
                    /\ \A m \in (k + 1)..Len(acts) : Read(acts[m].id) # key]]

\* the fields refineItinerary copies from the old activity before it looks at the lock
CopyUserState(act, old) ==
    [act EXCEPT !.feedback = Read(old.feedback),
                !.actualCost = Read(old.actualCost),
                !.userNotes = Read(old.userNotes),
                !.isMandatory = Read(old.isMandatory),
                !.selectedTransport = Read(old.selectedTransport)]

\* the defaults refineItinerary gives an activity it finds no old activity for
DefaultUserState(act) ==
    [act EXCEPT !.feedback = "neutral", !.isLocked = JsFalse, !.isMandatory = JsFalse]

\* the body of day.activities.forEach(act => ...) in refineItinerary
MergeActivity(act, oldActivityMap) ==
    IF Read(act.id) \in DOMAIN oldActivityMap
    THEN LET old == oldActivityMap[Read(act.id)]
             copied == CopyUserState(act, old)
         IN  IF ~Falsy(old.isLocked) THEN ObjectAssign(copied, old) ELSE copied
    ELSE DefaultUserState(act)

MergeState(data, currentItinerary) ==
    LET oldActivityMap == OldActivityMap(currentItinerary)
    IN  [data EXCEPT !.days =
            [i \in 1..Len(data.days) |->
                [data.days[i] EXCEPT !.activities =
                    [j \in 1..Len(data.days[i].activities) |->
                        MergeActivity(data.days[i].activities[j], oldActivityMap)]]]]

AttachOwnerFields_candidate(data, currentItinerary) == data

\* data.wishlist = currentItinerary.wishlist; data.logistics = currentItinerary.logistics
AttachOwnerFields(data, currentItinerary) ==
    [data EXCEPT !.wishlist = currentItinerary.wishlist,
                 !.logistics = currentItinerary.logistics]

refineItinerary(currentItinerary, userRequest, response) ==
    CASE response.kind = "throws" -> Rejected("completion call failed")
      [] response.kind = "empty" -> Rejected("No response from AI")
      [] response.kind = "unparseable" -> Rejected("SyntaxError")
      [] response.kind = "malformed" -> Rejected("TypeError")
      [] response.kind = "json" /\ ~HasDays(response.data) -> Rejected("TypeError")
      [] OTHER -> Resolved(AttachOwnerFields(MergeState(response.data, currentItinerary),
                                             currentItinerary))

-----------------------------------------------------------------------------
(* refineItinerary on the objects it holds references to.  current are the     *)
(* activity objects of currentItinerary and data those of the parsed response, *)
(* both in visiting order; every assignment of the merge is a write to one of  *)
(* the two.                                                                    *)

Store(currentItinerary, data) ==
    [current |-> Activities(currentItinerary), data |-> Activities(data)]

\* oldActivityMap as references: the position in current of the activity a key maps to
OldActivityRefs(currentItinerary) ==
    LET acts == Activities(currentItinerary)
        keys == {Read(acts[k].id) : k \in 1..Len(acts)}
    IN  [key \in keys |->
            CHOOSE k \in 1..Len(acts) :
                /\ Read(acts[k].id) = key
                /\ \A m \in (k + 1)..Len(acts) : Read(acts[m].id) # key]

\* the merge with the arguments of Object.assign exchanged
MergeWrites_intoOld(store, k, refs) ==
    LET act == store.data[k]
    IN  IF Read(act.id) \in DOMAIN refs
        THEN LET o == refs[Read(act.id)]
                 copied == [store EXCEPT !.data[k] = CopyUserState(act, store.current[o])]
             IN  IF ~Falsy(store.current[o].isLocked)
                 THEN [copied EXCEPT
                          !.current[o] = ObjectAssign(copied.current[o], copied.data[k])]
                 ELSE copied
        ELSE [store EXCEPT !.data[k] = DefaultUserState(act)]

\* the writes of the body of day.activities.forEach(act => ...) for the k-th
\* activity of data
MergeWrites(store, k, refs) ==
    LET act == store.data[k]
    IN  IF Read(act.id) \in DOMAIN refs
        THEN LET o == refs[Read(act.id)]
                 copied == [store EXCEPT !.data[k] = CopyUserState(act, store.current[o])]
             IN  IF ~Falsy(store.current[o].isLocked)
                 THEN [copied EXCEPT
                          !.data[k] = ObjectAssign(copied.data[k], copied.current[o])]
                 ELSE copied
        ELSE [store EXCEPT !.data[k] = DefaultUserState(act)]

RECURSIVE MergeLoop(_, _, _)
\* data.days.forEach(day => day.activities.forEach(...)) from the k-th activity on
MergeLoop(store, k, refs) ==
    IF k > Len(store.data) THEN store
    ELSE MergeLoop(MergeWrites(store, k, refs), k + 1, refs)

\* the activity objects after refineItinerary(currentItinerary, userRequest) has
\* resolved or rejected: nothing is written before the merge loop
RefineStore(currentItinerary, userRequest, response) ==
    IF response.kind = "json" /\ HasDays(response.data)
    THEN MergeLoop(Store(currentItinerary, response.data), 1,
                   OldActivityRefs(currentItinerary))
    ELSE Store(currentItinerary, [days |-> <<>>])

\* currentItinerary as the call leaves it: the top-level object and the day
\* objects are only read, the activity objects are those of the store
RECURSIVE Unflatten(_, _)
Unflatten(days, activities) ==
    IF days = <<>> THEN <<>>
    ELSE LET n == Len(Head(days).activities)
         IN  <<[Head(days) EXCEPT !.activities = SubSeq(activities, 1, n)]>>
                 \o Unflatten(Tail(days), SubSeq(activities, n + 1, Len(activities)))

InputAfterRefine(currentItinerary, userRequest, response) ==
    [currentItinerary EXCEPT
        !.days = Unflatten(currentItinerary.days,
                           RefineStore(currentItinerary, userRequest, response).current)]

-----------------------------------------------------------------------------
(* App: state after the first render of an unauthenticated session with nothing  *)
(* stored                                                                        *)

NoCall == [op |-> "none"]
NoLast == [op |-> "none"]

\* the call that completed in the step before, when that call wrote to the itinerary
\* a handler still suspended had started from
Brief(l) ==
    IF l.op \in {"refine", "reorder"}
    THEN [op |-> l.op, prior |-> l.prior, stored |-> l.stored]
    ELSE NoLast

\* Date.now().toString()
Timestamps == {"1730000000000"}

\* what the user types into the refine bar
Prompts == {"", " ", "swap breakfast for brunch"}

\* prompt.trim()
Trim(prompt) == IF prompt = " " THEN "" ELSE prompt

LockUpdate == [isLocked |-> JsTrue]
UnlockUpdate == [isLocked |-> JsFalse]
EditUpdate ==
    [isMandatory |-> JsTrue, userNotes |-> "note by user", feedback |-> "dislike",
     actualCost |-> "15"]

\* the updates ItineraryView passes to onUpdateActivity: a lock toggle, or an edit
\* of the mandatory flag, the notes, the feedback and the cost
ActivityUpdates == {LockUpdate, UnlockUpdate, EditUpdate}

\* a Partial<Activity> as a record over all activity fields
Partial(updates) ==
    [f \in ActivityFields |-> IF f \in DOMAIN updates THEN updates[f] ELSE Absent]

WishlistItems == {"wish-by-user"}

Init ==
    /\ itinerary = Null
    /\ isLoading = FALSE
    /\ isRefining = FALSE
    /\ refinePrompt = ""
    /\ savedPlans = <<>>
    /\ user = NoUser
    /\ localStorage = NoItem
    /\ cloud = <<>>
    /\ inflight = NoCall
    /\ reschedule = NoCall
    /\ cloudLoad = NoCall
    /\ last = NoLast

-----------------------------------------------------------------------------
(* App handlers.  last holds the service call the step completed, and NoLast    *)
(* after any other step.                                                        *)

\* supabase.from('itineraries').upsert(...), read back newest first
Upsert(rows, plan, userId) ==
    LET Other(row) == row.id # plan.id
    IN  <<[id |-> plan.id, user_id |-> userId,
           trip_data |-> JsonStringify(<<plan>>)[1]]>> \o SelectSeq(rows, Other)

\* saveToHistory upserting the plan to the cloud whatever the user
SaveToHistory_cloudToo(plan, closureSavedPlans, closureUser) ==
    LET Other(p) == p.id # plan.id
        updated == <<plan>> \o SelectSeq(closureSavedPlans, Other)
    IN  /\ savedPlans' = updated
        /\ IF closureUser # NoUser
           THEN /\ cloud' \in {cloud, Upsert(cloud, plan, closureUser.id)}
                /\ UNCHANGED localStorage
           ELSE /\ localStorage' = Stored(JsonStringify(updated))
                /\ cloud' = Upsert(cloud, plan, Undefined)

\* saveToHistory putting the plan in front of the list as it is
SaveToHistory_prepend(plan, closureSavedPlans, closureUser) ==
    LET updated == <<plan>> \o closureSavedPlans
    IN  /\ savedPlans' = updated
        /\ IF closureUser # NoUser
           THEN /\ cloud' \in {cloud, Upsert(cloud, plan, closureUser.id)}
                /\ UNCHANGED localStorage
           ELSE /\ localStorage' = Stored(JsonStringify(updated))
                /\ UNCHANGED cloud

\* saveToHistory(plan) of the render whose savedPlans and user are given
SaveToHistory(plan, closureSavedPlans, closureUser) ==
    LET Other(p) == p.id # plan.id
        updated == <<plan>> \o SelectSeq(closureSavedPlans, Other)
    IN  /\ savedPlans' = updated
        /\ IF closureUser # NoUser
           THEN /\ cloud' \in {cloud, Upsert(cloud, plan, closureUser.id)}
                /\ UNCHANGED localStorage
           ELSE /\ localStorage' = Stored(JsonStringify(updated))
                /\ UNCHANGED cloud

\* handleCreateItinerary up to its await; TravelForm is rendered while there is no
\* itinerary and its button is disabled while isLoading
HandleCreateItinerary(input) ==
    /\ itinerary = Null
    /\ ~isLoading
    /\ inflight = NoCall
    /\ isLoading' = TRUE
    /\ inflight' = [op |-> "generate", input |-> input,
                    savedPlans |-> savedPlans, user |-> user]
    /\ last' = NoLast
    /\ UNCHANGED <<reschedule, cloudLoad>>
    /\ UNCHANGED <<itinerary, isRefining, refinePrompt, savedPlans, user,
                   localStorage, cloud>>

\* handleCreateItinerary from the await on
HandleCreateItineraryDone(response, randoms, now) ==
    /\ inflight.op = "generate"
    /\ LET outcome == generateItinerary(inflight.input, response, randoms)
       IN  IF outcome.status = "resolved"
           THEN LET result == [outcome.value EXCEPT !.id = now]
                IN  /\ itinerary' = result
                    /\ SaveToHistory(result, inflight.savedPlans, inflight.user)
                    /\ last' = [op |-> "generate", input |-> inflight.input,
                                response |-> response, outcome |-> outcome,
                                stored |-> result]
           ELSE /\ UNCHANGED <<itinerary, savedPlans, localStorage, cloud>>
                /\ last' = [op |-> "generate", input |-> inflight.input,
                            response |-> response, outcome |-> outcome,
                            stored |-> Null]
    /\ isLoading' = FALSE
    /\ inflight' = NoCall
    /\ UNCHANGED <<reschedule, cloudLoad>>
    /\ UNCHANGED <<isRefining, refinePrompt, user>>

\* itinerary.days.map(...) of handleUpdateActivity
UpdatedDays(days, dayIndex, activityId, updates) ==
    [idx \in 1..Len(days) |->
        IF idx # dayIndex THEN days[idx]
        ELSE [days[idx] EXCEPT !.activities =
                [j \in 1..Len(days[idx].activities) |->
                    IF Read(days[idx].activities[j].id) # activityId
                    THEN days[idx].activities[j]
                    ELSE Spread(days[idx].activities[j], Partial(updates))]]]

\* handleUpdateActivity for updates that select no transport
HandleUpdateActivity(dayIndex, activityId, updates) ==
    /\ itinerary # Null
    /\ dayIndex \in 1..Len(itinerary.days)
    /\ \E j \in 1..Len(itinerary.days[dayIndex].activities) :
           Read(itinerary.days[dayIndex].activities[j].id) = activityId
    /\ Falsy(Partial(updates).selectedTransport)
    /\ LET newItinerary ==
               [itinerary EXCEPT !.days = UpdatedDays(itinerary.days, dayIndex,
                                                      activityId, updates)]
       IN  /\ itinerary' = newItinerary
           /\ SaveToHistory(newItinerary, savedPlans, user)
    /\ last' = NoLast
    /\ UNCHANGED <<reschedule, cloudLoad>>
    /\ UNCHANGED <<isLoading, isRefining, refinePrompt, user, inflight>>

\* handleAddWishlistItem
HandleAddWishlistItem(item) ==
    /\ itinerary # Null
    /\ Len(itinerary.wishlist) < MaxWishlist
    /\ LET newItinerary == [itinerary EXCEPT !.wishlist = Append(@, item)]
       IN  /\ itinerary' = newItinerary
           /\ SaveToHistory(newItinerary, savedPlans, user)
    /\ last' = NoLast
    /\ UNCHANGED <<reschedule, cloudLoad>>
    /\ UNCHANGED <<isLoading, isRefining, refinePrompt, user, inflight>>

\* onChange of the refine bar's input
SetRefinePrompt(prompt) ==
    /\ itinerary # Null
    /\ refinePrompt' = prompt
    /\ last' = NoLast
    /\ UNCHANGED <<reschedule, cloudLoad>>
    /\ UNCHANGED <<itinerary, isLoading, isRefining, savedPlans, user,
                   localStorage, cloud, inflight>>

\* handleRefine up to its await
HandleRefine ==
    /\ itinerary # Null
    /\ Trim(refinePrompt) # ""
    /\ inflight = NoCall
    /\ isRefining' = TRUE
    /\ inflight' = [op |-> "refine", itinerary |-> itinerary,
                    refinePrompt |-> refinePrompt,
                    savedPlans |-> savedPlans, user |-> user]
    /\ last' = NoLast
    /\ UNCHANGED <<reschedule, cloudLoad>>
    /\ UNCHANGED <<itinerary, isLoading, refinePrompt, savedPlans, user,
                   localStorage, cloud>>

KeepSameId_candidate(updated, closureItinerary) == updated

\* updated.id = itinerary.id
KeepSameId(updated, closureItinerary) == [updated EXCEPT !.id = closureItinerary.id]

HandleRefineDone_clears(response) ==
    /\ inflight.op = "refine"
    /\ LET outcome == refineItinerary(inflight.itinerary, inflight.refinePrompt, response)
       IN  IF outcome.status = "resolved"
           THEN LET updated == KeepSameId(outcome.value, inflight.itinerary)
                IN  /\ itinerary' = updated
                    /\ refinePrompt' = ""
                    /\ SaveToHistory(updated, inflight.savedPlans, inflight.user)
                    /\ last' = [op |-> "refine", prior |-> inflight.itinerary,
                                request |-> inflight.refinePrompt,
                            input |-> InputAfterRefine(inflight.itinerary,
                                                       inflight.refinePrompt, response),
                                response |-> response, outcome |-> outcome,
                                stored |-> updated, previous |-> Brief(last)]
           ELSE /\ itinerary' = Null
                /\ UNCHANGED <<refinePrompt, savedPlans, localStorage, cloud>>
                /\ last' = [op |-> "refine", prior |-> inflight.itinerary,
                            request |-> inflight.refinePrompt,
                            input |-> InputAfterRefine(inflight.itinerary,
                                                       inflight.refinePrompt, response),
                            response |-> response, outcome |-> outcome,
                            stored |-> Null, previous |-> Brief(last)]
    /\ isRefining' = FALSE
    /\ inflight' = NoCall
    /\ UNCHANGED <<reschedule, cloudLoad>>
    /\ UNCHANGED <<isLoading, user>>

\* handleRefine from the await on
HandleRefineDone(response) ==
    /\ inflight.op = "refine"
    /\ LET outcome == refineItinerary(inflight.itinerary, inflight.refinePrompt, response)
       IN  IF outcome.status = "resolved"
           THEN LET updated == KeepSameId(outcome.value, inflight.itinerary)
                IN  /\ itinerary' = updated
                    /\ refinePrompt' = ""
                    /\ SaveToHistory(updated, inflight.savedPlans, inflight.user)
                    /\ last' = [op |-> "refine", prior |-> inflight.itinerary,
                                request |-> inflight.refinePrompt,
                            input |-> InputAfterRefine(inflight.itinerary,
                                                       inflight.refinePrompt, response),
                                response |-> response, outcome |-> outcome,
                                stored |-> updated, previous |-> Brief(last)]
           ELSE /\ UNCHANGED <<itinerary, refinePrompt, savedPlans, localStorage, cloud>>
                /\ last' = [op |-> "refine", prior |-> inflight.itinerary,
                            request |-> inflight.refinePrompt,
                            input |-> InputAfterRefine(inflight.itinerary,
                                                       inflight.refinePrompt, response),
                            response |-> response, outcome |-> outcome,
                            stored |-> Null, previous |-> Brief(last)]
    /\ isRefining' = FALSE
    /\ inflight' = NoCall
    /\ UNCHANGED <<reschedule, cloudLoad>>
    /\ UNCHANGED <<isLoading, user>>

\* no handler is suspended at its await
Idle == inflight = NoCall /\ reschedule = NoCall

\* a session of the App in which one itinerary is generated, edited and refined,
\* and the user acts only while no call is awaited
Next ==
    \/ \E input \in TripInputs : HandleCreateItinerary(input)
    \/ \E response \in SessionResponses, randoms \in [1..MaxActs -> GeneratedIds],
          now \in Timestamps :
           HandleCreateItineraryDone(response, randoms, now)
    \/ \E dayIndex \in 1..MaxDays, activityId \in ActivityIds, updates \in ActivityUpdates :
           Idle /\ HandleUpdateActivity(dayIndex, activityId, updates)
    \/ \E item \in WishlistItems : Idle /\ HandleAddWishlistItem(item)
    \/ \E prompt \in Prompts : Idle /\ SetRefinePrompt(prompt)
    \/ HandleRefine
    \/ \E response \in SessionResponses : HandleRefineDone(response)

Spec == Init /\ [][Next]_vars

-----------------------------------------------------------------------------
(* refineItinerary against every candidate within the bounds: the App holds an   *)
(* itinerary that was generated and edited, and the user asks for one refinement *)

Generated(act) == HydrateActivity(act, "g1")
LockedByUser(act) == Spread(act, Partial(LockUpdate))
EditedByUser(act) == Spread(act, Partial(EditUpdate))

\* an activity a refinement left without an id, as the service sent none
WithoutId == DefaultUserState(PlainActivity(Absent))

PriorDays ==
    {<<>>,
     DaysOf(<< <<LockedByUser(Generated(PlainActivity("a1")))>> >>),
     DaysOf(<< <<Generated(PlainActivity("a1")), EditedByUser(Generated(PlainActivity("a2")))>> >>),
     DaysOf(<< <<LockedByUser(EditedByUser(Generated(PlainActivity("a1"))))>>,
               <<Generated(LoadedActivity("a2"))>> >>),
     DaysOf(<< <<EditedByUser(Generated(LoadedActivity("a1")))>>,
               <<Generated(PlainActivity(Absent))>> >>),
     DaysOf(<< <<LockedByUser(WithoutId), Generated(PlainActivity("a1"))>> >>)}

PriorItineraries ==
    {[id |-> now, destination |-> "Lisbon", days |-> days,
      logistics |-> input.logistics, wishlist |-> wishlist] :
        now \in Timestamps, days \in PriorDays, input \in TripInputs,
        wishlist \in {<<>>} \cup {<<item>> : item \in WishlistItems}}

InitRefine ==
    /\ itinerary \in PriorItineraries
    /\ isLoading = FALSE
    /\ isRefining = FALSE
    /\ refinePrompt = "swap breakfast for brunch"
    /\ savedPlans = <<itinerary>>
    /\ user = NoUser
    /\ localStorage = Stored(JsonStringify(<<itinerary>>))
    /\ cloud = <<>>
    /\ inflight = NoCall
    /\ reschedule = NoCall
    /\ cloudLoad = NoCall
    /\ last = NoLast

\* every candidate within the bounds, and the parsed objects that lack a field
IncompleteCandidates == {WithoutDestination(days) : days \in SessionDays} \cup {WithoutDays}
AllResponses == ItineraryResponses \cup [kind : {"json"}, data : IncompleteCandidates]

NextRefine ==
    \/ HandleRefine
    \/ \E response \in AllResponses : HandleRefineDone(response)

SpecRefine == InitRefine /\ [][NextRefine]_vars

-----------------------------------------------------------------------------
(* generateItinerary against every response within the bounds: the App is asked *)
(* for a first itinerary                                                        *)

NextGenerate ==
    \/ \E input \in TripInputs : HandleCreateItinerary(input)
    \/ \E response \in AllResponses, randoms \in [1..MaxActs -> GeneratedIds],
          now \in Timestamps :
           HandleCreateItineraryDone(response, randoms, now)

SpecGenerate == Init /\ [][NextGenerate]_vars

-----------------------------------------------------------------------------
(* recalculateDaySchedule *)

UpdateFields == {"id", "time", "transportToNext", "title"}

\* an element of the parsed array: an object, or the JSON value null
FullUpdate(id) ==
    [kind |-> "object", id |-> id, time |-> "10:30",
     transportToNext |-> "Transit: 10m ($2)", title |-> "Renamed by AI"]
TimeOnlyUpdate(id) ==
    [kind |-> "object", id |-> id, time |-> "11:45",
     transportToNext |-> Absent, title |-> Absent]
NullElement ==
    [kind |-> "null", id |-> Absent, time |-> Absent,
     transportToNext |-> Absent, title |-> Absent]

UpdateElements ==
    {FullUpdate("a1"), FullUpdate("a2"), TimeOnlyUpdate("a1"), FullUpdate(Absent),
     NullElement}

\* what JSON.parse(jsonStr) yields: an array, or a value that is no array
ScheduleValues ==
    [type : {"null", "object"}, items : {<<>>}]
        \cup [type : {"array"}, items : SeqsUpTo(UpdateElements, MaxUpdates)]

ScheduleResponses ==
    [kind : {"throws", "empty", "unparseable"}, data : {NoData}]
        \cup [kind : {"json"}, data : ScheduleValues]

TypeError == [throws |-> "TypeError"]

\* how a block of statements completes
Returned(v) == [completion |-> "return", value |-> v]
Thrown(e) == [completion |-> "throw", error |-> e]

\* updates.find(u => u.id === act.id): the first element with the id; reading the
\* id of a null element met before it throws; NoItem when the array has none
Find(updates, act) ==
    LET stops == {k \in 1..Len(updates) :
                    \/ updates[k].kind = "null"
                    \/ Read(updates[k].id) = Read(act.id)}
    IN  IF stops = {} THEN NoItem
        ELSE LET k == CHOOSE m \in stops : \A n \in stops : m <= n
             IN  IF updates[k].kind = "null" THEN TypeError ELSE updates[k]

MergeUpdate_spread(act, update) ==
    [f \in ActivityFields |->
        IF f \in UpdateFields /\ update[f] # Absent THEN update[f] ELSE act[f]]

\* { ...act, time: update.time, transportToNext: update.transportToNext }
MergeUpdate(act, update) ==
    [act EXCEPT !.time = Read(update.time),
                !.transportToNext = Read(update.transportToNext)]

\* the statements of the try block after the await, on the parsed value
MergeUpdates(activities, value) ==
    IF Len(activities) = 0 THEN Returned(<<>>)
    ELSE IF value.type # "array" THEN Thrown("TypeError")
    ELSE IF \E k \in 1..Len(activities) : Find(value.items, activities[k]) = TypeError
         THEN Thrown("TypeError")
    ELSE Returned([k \in 1..Len(activities) |->
            LET update == Find(value.items, activities[k])
            IN  IF update # NoItem THEN MergeUpdate(activities[k], update)
                ELSE activities[k]])

Catch_rethrow(attempt, activities) ==
    IF attempt.completion = "throw" THEN Rejected(attempt.error)
    ELSE Resolved(attempt.value)

\* catch (e) { console.error(...); return activities; }
Catch(attempt, activities) ==
    IF attempt.completion = "throw" THEN Resolved(activities)
    ELSE Resolved(attempt.value)

recalculateDaySchedule(activities, previousLocation, response) ==
    CASE response.kind = "throws" -> Catch(Thrown("completion call failed"), activities)
      [] response.kind = "empty" -> Resolved(activities)
      [] response.kind = "unparseable" -> Catch(Thrown("SyntaxError"), activities)
      [] OTHER -> Catch(MergeUpdates(activities, response.data), activities)

-----------------------------------------------------------------------------
(* analyzeSocialContent *)

Placeholder == [possibleName |-> "Unknown Spot", summary |-> "Could not analyze", tags |-> <<>>]

\* what JSON.parse(text) yields for a text that parses
AnalysisValues ==
    {[possibleName |-> "Pasteis de Belem", summary |-> "viral custard tarts",
      tags |-> <<"Food">>],
     Null}

AnalysisResponses ==
    [kind : {"throws", "empty", "unparseable"}, data : {NoData}]
        \cup [kind : {"json"}, data : AnalysisValues]

UrlContents == {"https://insta/p/1", "http://tiktok/v/2"}
Contents == UrlContents \cup {"best pastel de nata in Lisbon", ""}

\* content.startsWith('http')
StartsWithHttp(content) == content \in UrlContents

\* the WishlistItem built after the try block
WishlistItem(content, analysis, now) ==
    [id |-> now, content |-> content,
     type |-> IF StartsWithHttp(content) THEN "url" ELSE "text",
     analysis |-> analysis]

analyzeSocialContent_noTry(content, response, now) ==
    CASE response.kind = "throws" -> Rejected("completion call failed")
      [] response.kind \in {"empty", "unparseable"} -> Rejected("SyntaxError")
      [] OTHER -> Resolved(WishlistItem(content, response.data, now))

analyzeSocialContent(content, response, now) ==
    CASE response.kind = "throws" -> Rejected("completion call failed")
      [] response.kind \in {"empty", "unparseable"} ->
            Resolved(WishlistItem(content, Placeholder, now))
      [] OTHER -> Resolved(WishlistItem(content, response.data, now))

-----------------------------------------------------------------------------
(* The two services called on their own: the inputs of one call are drawn at the *)
(* start, the call completes with any response of the completion service         *)

ScheduledActivities ==
    {LockedByUser(Generated(PlainActivity("a1"))),
     EditedByUser(Generated(LoadedActivity("a2"))),
     WithoutId}

PreviousLocations == {Absent, "Hotel Baixa"}

ServiceCalls ==
    [op : {"recalculateDaySchedule"},
     activities : SeqsUpTo(ScheduledActivities, MaxActs),
     previousLocation : PreviousLocations]
        \cup [op : {"analyzeSocialContent"}, content : Contents]

InitService ==
    /\ itinerary = Null
    /\ isLoading = FALSE
    /\ isRefining = FALSE
    /\ refinePrompt = ""
    /\ savedPlans = <<>>
    /\ user = NoUser
    /\ localStorage = NoItem
    /\ cloud = <<>>
    /\ inflight \in ServiceCalls
    /\ reschedule = NoCall
    /\ cloudLoad = NoCall
    /\ last = NoLast

RecalculateDone(response) ==
    /\ inflight.op = "recalculateDaySchedule"
    /\ last' = [op |-> inflight.op, activities |-> inflight.activities,
                response |-> response,
                outcome |-> recalculateDaySchedule(inflight.activities,
                                                   inflight.previousLocation, response)]
    /\ inflight' = NoCall
    /\ UNCHANGED <<reschedule, cloudLoad>>
    /\ UNCHANGED <<itinerary, isLoading, isRefining, refinePrompt, savedPlans, user,
                   localStorage, cloud>>

AnalyzeDone(response, now) ==
    /\ inflight.op = "analyzeSocialContent"
    /\ last' = [op |-> inflight.op, content |-> inflight.content,
                response |-> response,
                outcome |-> analyzeSocialContent(inflight.content, response, now)]
    /\ inflight' = NoCall
    /\ UNCHANGED <<reschedule, cloudLoad>>
    /\ UNCHANGED <<itinerary, isLoading, isRefining, refinePrompt, savedPlans, user,
                   localStorage, cloud>>

NextService ==
    \/ \E response \in ScheduleResponses : RecalculateDone(response)
    \/ \E response \in AnalysisResponses, now \in Timestamps : AnalyzeDone(response, now)

SpecService == InitService /\ [][NextService]_vars

-----------------------------------------------------------------------------
(* handleReorderActivities, and a refinement and a reorder that overlap *)

\* the orders a drag can give the activities of a day: every order but the shown one
NewOrders(activities) ==
    {[k \in 1..Len(activities) |-> activities[order[k]]] :
        order \in {o \in [1..Len(activities) -> 1..Len(activities)] :
                     \A i, j \in 1..Len(activities) : i # j => o[i] # o[j]}}
        \ {activities}

\* { ...base, days: base.days.map((day, idx) => idx === dayIndex ?
\*                                   { ...day, activities } : day) }
WithDayActivities(base, dayIndex, activities) ==
    [base EXCEPT !.days =
        [idx \in 1..Len(base.days) |->
            IF idx = dayIndex THEN [base.days[idx] EXCEPT !.activities = activities]
            ELSE base.days[idx]]]

FinalItinerary_displayed(optimisticItinerary, dayIndex, updatedActivities) ==
    WithDayActivities(itinerary, dayIndex, updatedActivities)

\* finalItinerary
FinalItinerary(optimisticItinerary, dayIndex, updatedActivities) ==
    WithDayActivities(optimisticItinerary, dayIndex, updatedActivities)

\* handleReorderActivities up to its await
HandleReorderActivities(dayIndex, newActivities) ==
    /\ itinerary # Null
    /\ reschedule = NoCall
    /\ dayIndex \in 1..Len(itinerary.days)
    /\ newActivities \in NewOrders(itinerary.days[dayIndex].activities)
    /\ LET optimisticItinerary == WithDayActivities(itinerary, dayIndex, newActivities)
       IN  /\ itinerary' = optimisticItinerary
           /\ reschedule' = [op |-> "reorder", itinerary |-> itinerary,
                             optimisticItinerary |-> optimisticItinerary,
                             dayIndex |-> dayIndex, newActivities |-> newActivities,
                             savedPlans |-> savedPlans, user |-> user]
    /\ isRefining' = TRUE
    /\ last' = NoLast
    /\ UNCHANGED <<isLoading, refinePrompt, savedPlans, user, localStorage, cloud,
                   inflight, cloudLoad>>

\* handleReorderActivities from the await on
HandleReorderActivitiesDone(response) ==
    /\ reschedule.op = "reorder"
    /\ LET outcome == recalculateDaySchedule(reschedule.newActivities,
                                             reschedule.itinerary.logistics, response)
       IN  IF outcome.status = "resolved"
           THEN LET finalItinerary == FinalItinerary(reschedule.optimisticItinerary,
                                                     reschedule.dayIndex, outcome.value)
                IN  /\ itinerary' = finalItinerary
                    /\ SaveToHistory(finalItinerary, reschedule.savedPlans,
                                     reschedule.user)
                    /\ last' = [op |-> "reorder", prior |-> reschedule.itinerary,
                                dayIndex |-> reschedule.dayIndex,
                                newActivities |-> reschedule.newActivities,
                                response |-> response, outcome |-> outcome,
                                stored |-> finalItinerary, previous |-> Brief(last)]
           ELSE /\ UNCHANGED <<itinerary, savedPlans, localStorage, cloud>>
                /\ last' = [op |-> "reorder", prior |-> reschedule.itinerary,
                            dayIndex |-> reschedule.dayIndex,
                            newActivities |-> reschedule.newActivities,
                            response |-> response, outcome |-> outcome,
                            stored |-> Null, previous |-> Brief(last)]
    /\ isRefining' = FALSE
    /\ reschedule' = NoCall
    /\ UNCHANGED <<isLoading, refinePrompt, user, inflight, cloudLoad>>

\* the responses to a reschedule the overlapping calls are run against
OverlapSchedules ==
    [kind : {"throws"}, data : {NoData}]
        \cup [kind : {"json"},
              data : [type : {"array"},
                      items : {<<>>, <<FullUpdate("a1")>>,
                               <<TimeOnlyUpdate("a1"), FullUpdate("a2")>>}]]

\* an itinerary with a day the user can reorder, and a refinement typed in
InitOverlap ==
    /\ InitRefine
    /\ \E i \in 1..Len(itinerary.days) : Len(itinerary.days[i].activities) > 1

NextOverlap ==
    \/ HandleRefine
    \/ \E response \in SessionResponses : HandleRefineDone(response)
    \/ \E dayIndex \in 1..MaxDays :
          \E newActivities \in SeqsUpTo(ActivitySet(itinerary), MaxActs) :
              HandleReorderActivities(dayIndex, newActivities)
    \/ \E response \in OverlapSchedules : HandleReorderActivitiesDone(response)

SpecOverlap == InitOverlap /\ [][NextOverlap]_vars

-----------------------------------------------------------------------------
(* cleanJson.  A text is a sequence of tokens: the fence marker of three        *)
(* backticks, the word json, a line break, a bracket, a brace, a quote, or a    *)
(* piece of other text.                                                         *)

\* the marker of three backticks
Fence == "<fence>"
Tag == "json"
Ws == "\n"
Quote == "\""

\* text.indexOf(token) and text.lastIndexOf(token), counted from 1; 0 for JS's -1
IndexOf(text, token) ==
    IF \E k \in 1..Len(text) : text[k] = token
    THEN CHOOSE k \in 1..Len(text) :
            text[k] = token /\ \A m \in 1..(k - 1) : text[m] # token
    ELSE 0
LastIndexOf(text, token) ==
    IF \E k \in 1..Len(text) : text[k] = token
    THEN CHOOSE k \in 1..Len(text) :
            text[k] = token /\ \A m \in (k + 1)..Len(text) : text[m] # token
    ELSE 0

\* text.trim()
TrimText(text) ==
    IF \A k \in 1..Len(text) : text[k] = Ws THEN <<>>
    ELSE SubSeq(text, CHOOSE k \in 1..Len(text) :
                          text[k] # Ws /\ \A m \in 1..(k - 1) : text[m] = Ws,
                      CHOOSE k \in 1..Len(text) :
                          text[k] # Ws /\ \A m \in (k + 1)..Len(text) : text[m] = Ws)

NoMatch == [matched |-> FALSE, group |-> <<>>]

\* text.match(/<fence>json\s*([\s\S]*?)\s*<fence>/) for a marker of two tokens,
\* text.match(/<fence>\s*([\s\S]*?)\s*<fence>/) for a marker of one: the leftmost marker
\* with a fence after it, and the text up to the first such fence, without the line
\* breaks around it
Match(text, marker) ==
    LET IsMarker(i) ==
            /\ i + Len(marker) - 1 <= Len(text)
            /\ SubSeq(text, i, i + Len(marker) - 1) = marker
        Closes(i) == {j \in (i + Len(marker))..Len(text) : text[j] = Fence}
        starts == {i \in 1..Len(text) : IsMarker(i) /\ Closes(i) # {}}
    IN  IF starts = {} THEN NoMatch
        ELSE LET i == CHOOSE a \in starts : \A b \in starts : a <= b
                 j == CHOOSE a \in Closes(i) : \A b \in Closes(i) : a <= b
             IN  [matched |-> TRUE,
                  group |-> TrimText(SubSeq(text, i + Len(marker), j - 1))]

RECURSIVE RemoveFences(_)
\* text.replace(/<fence>json/g, '').replace(/<fence>/g, '')
RemoveFences(text) ==
    IF text = <<>> THEN <<>>
    ELSE IF Len(text) >= 2 /\ text[1] = Fence /\ text[2] = Tag
         THEN RemoveFences(SubSeq(text, 3, Len(text)))
    ELSE IF text[1] = Fence THEN RemoveFences(Tail(text))
    ELSE <<text[1]>> \o RemoveFences(Tail(text))

\* the span text.substring(first, last + 1) from the first open to the last close,
\* when the text has both and the close comes after the open; NoMatch otherwise
Span(text, open, close) ==
    LET first == IndexOf(text, open)
        last_ == LastIndexOf(text, close)
    IN  IF first # 0 /\ last_ # 0 /\ last_ > first
        THEN [matched |-> TRUE, group |-> SubSeq(text, first, last_)]
        ELSE NoMatch

cleanJson_braceFirst(text) ==
    LET match == IF Match(text, <<Fence, Tag>>).matched THEN Match(text, <<Fence, Tag>>)
                 ELSE Match(text, <<Fence>>)
    IN  IF match.matched THEN TrimText(match.group)
        ELSE IF Span(text, "{", "}").matched THEN Span(text, "{", "}").group
        ELSE IF Span(text, "[", "]").matched THEN Span(text, "[", "]").group
        ELSE TrimText(RemoveFences(text))

cleanJson(text) ==
    LET match == IF Match(text, <<Fence, Tag>>).matched THEN Match(text, <<Fence, Tag>>)
                 ELSE Match(text, <<Fence>>)
    IN  IF match.matched THEN TrimText(match.group)
        ELSE IF Span(text, "[", "]").matched THEN Span(text, "[", "]").group
        ELSE IF Span(text, "{", "}").matched THEN Span(text, "{", "}").group
        ELSE TrimText(RemoveFences(text))

\* every text of at most MaxText tokens
Tokens == {Fence, Tag, Ws, "[", "]", "{", "}", "a"}
ShortTexts == SeqsUpTo(Tokens, MaxText)

\* the object {"a":1} in a json fence, each on a line of its own
FencedObject ==
    <<Fence, Tag, Ws, "{", Quote, "a", Quote, ":", "1", "}", Ws, Fence>>

\* texts that are JSON already: scalars, strings that hold brackets, braces and
\* fence markers, and arrays and objects of scalars and of strings
StringTokens == {Fence, "[", "]", "{", "}", "a"}
JsonStrings == {<<Quote>> \o content \o <<Quote>> : content \in SeqsUpTo(StringTokens, MaxString)}
JsonScalars == {<<"1">>, <<"null">>}
JsonElements ==
    JsonScalars \cup {<<Quote, token, Quote>> : token \in StringTokens}
JsonTexts ==
    JsonScalars \cup JsonStrings
        \cup {<<"[", "]">>, <<"{", "}">>}
        \cup {<<"[">> \o v \o <<"]">> : v \in JsonElements}
        \cup {<<"[">> \o v \o <<",">> \o w \o <<"]">> : v, w \in JsonElements}
        \cup {<<"{", Quote, "a", Quote, ":">> \o v \o <<"}">> : v \in JsonElements}

\* texts that are exactly one JSON object, with no fence and no prose around it:
\* objects of one scalar or one array, and an itinerary with one day
JsonArrays ==
    {<<"[", "]">>} \cup {<<"[">> \o v \o <<"]">> : v \in JsonScalars \cup {<<"{", "}">>}}
ItineraryText ==
    <<"{", Quote, "destination", Quote, ":", Quote, "a", Quote, ",",
      Quote, "days", Quote, ":", "[", "{", Quote, "dayNumber", Quote, ":", "1", "}", "]", "}">>
ObjectTexts ==
    {<<"{", "}">>, ItineraryText}
        \cup {<<"{", Quote, "a", Quote, ":">> \o v \o <<"}">> : v \in JsonScalars \cup JsonArrays}

Texts == ShortTexts \cup JsonTexts \cup ObjectTexts \cup {FencedObject}

InitCleanJson ==
    /\ itinerary = Null
    /\ isLoading = FALSE
    /\ isRefining = FALSE
    /\ refinePrompt = ""
    /\ savedPlans = <<>>
    /\ user = NoUser
    /\ localStorage = NoItem
    /\ cloud = <<>>
    /\ inflight \in [op : {"cleanJson"}, text : Texts]
    /\ reschedule = NoCall
    /\ cloudLoad = NoCall
    /\ last = NoLast

\* cleanJson(text), and cleanJson of what it returned
CleanJsonDone ==
    /\ inflight.op = "cleanJson"
    /\ last' = [op |-> "cleanJson", text |-> inflight.text,
                result |-> cleanJson(inflight.text),
                again |-> cleanJson(cleanJson(inflight.text))]
    /\ inflight' = NoCall
    /\ UNCHANGED <<itinerary, isLoading, isRefining, refinePrompt, savedPlans, user,
                   localStorage, cloud, reschedule, cloudLoad>>

NextCleanJson == CleanJsonDone

SpecCleanJson == InitCleanJson /\ [][NextCleanJson]_vars

-----------------------------------------------------------------------------
(* Properties of refineItinerary, stated on the call that has just completed *)

RefineResolved == last.op = "refine" /\ last.outcome.status = "resolved"

\* the same value in every field, a missing property reading as undefined
SameFields(a, b) == \A f \in ActivityFields : Read(a[f]) = Read(b[f])

PriorIds == {Read(a.id) : a \in ActivitySet(last.prior)}

\* C1: lock invariance. Every locked activity of the prior itinerary is in the
\* itinerary refineItinerary returns, under its id and equal to it field by field,
\* whatever the candidate proposed for that id, and also when the candidate omits
\* the id or carries fields the locked activity does not have.
C1_LockInvariance ==
    RefineResolved =>
        \A a \in ActivitySet(last.prior) :
            ~Falsy(a.isLocked) =>
                \E b \in ActivitySet(last.outcome.value) :
                    Read(b.id) = Read(a.id) /\ SameFields(a, b)

\* C2: user-owned fields survive regeneration. Every activity of the result whose id
\* is the id of a prior activity has that activity's isLocked, isMandatory,
\* userNotes, feedback, actualCost and selectedTransport.
C2_UserOwnedSurvive ==
    RefineResolved =>
        \A b \in ActivitySet(last.outcome.value) :
            \A a \in ActivitySet(last.prior) :
                Read(a.id) = Read(b.id) =>
                    \A f \in UserOwnedFields : Read(b[f]) = Read(a[f])

\* C3: new-activity defaults. Every activity of the result whose id is in no prior
\* activity is unlocked, not mandatory, of neutral feedback and has empty notes.
C3_NewActivityDefaults ==
    RefineResolved =>
        \A b \in ActivitySet(last.outcome.value) :
            Read(b.id) \notin PriorIds =>
                /\ b.isLocked = JsFalse
                /\ b.isMandatory = JsFalse
                /\ b.feedback = "neutral"
                /\ Read(b.userNotes) \in {"", Undefined}

\* C4: owner-field stickiness. The itinerary refineItinerary returns has the prior
\* itinerary's logistics and wishlist, for every candidate.
C4_OwnerFieldsSticky ==
    RefineResolved =>
        /\ last.outcome.value.logistics = last.prior.logistics
        /\ last.outcome.value.wishlist = last.prior.wishlist

\* a refinement of an itinerary with a wish of the user, for which the service
\* proposed other logistics and another wishlist
C4_Witness ==
    /\ RefineResolved
    /\ last.prior.wishlist # <<>>
    /\ last.response.data.logistics # last.prior.logistics
    /\ last.response.data.wishlist # last.prior.wishlist

\* C7: mandatory activities persist. Every mandatory activity of the prior itinerary
\* is in the itinerary refineItinerary returns, under the same id.
C7_MandatoryPersist ==
    RefineResolved =>
        \A a \in ActivitySet(last.prior) :
            ~Falsy(a.isMandatory) =>
                \E b \in ActivitySet(last.outcome.value) : Read(b.id) = Read(a.id)

-----------------------------------------------------------------------------
(* Properties of the App's refine operation and of the itinerary it displays *)

\* C5: identity preservation. The itinerary the refine operation hands to the App
\* has the id of the itinerary it refined, also when the candidate of the
\* completion service carries another id or none.
C5_IdentityPreserved ==
    RefineResolved =>
        /\ last.stored.id = last.prior.id
        /\ itinerary.id = last.prior.id
        /\ savedPlans[1].id = last.prior.id

\* a refinement whose candidate carried an id of its own
C5_Witness ==
    /\ RefineResolved
    /\ Read(last.response.data.id) \notin {Undefined, last.prior.id}
    /\ last.stored.id = last.prior.id

\* C6: activity-id invariant. After generateItinerary and after any number of
\* refinements, every activity of every day of the itinerary has a non-empty id.
C6_ActivityIds ==
    itinerary # Null =>
        \A a \in ActivitySet(itinerary) : Read(a.id) \notin {Undefined, "", "null"}

-----------------------------------------------------------------------------
(* Properties of recalculateDaySchedule and analyzeSocialContent *)

Recalculated == last.op = "recalculateDaySchedule"

\* C8: fail-open reschedule. recalculateDaySchedule never rejects, and when the
\* completion call throws, returns empty text or text that does not parse to an
\* array, it resolves to its input activities, unchanged.
C8_FailOpen ==
    Recalculated =>
        /\ last.outcome.status = "resolved"
        /\ (last.response.kind # "json" \/ last.response.data.type # "array")
              => last.outcome.value = last.activities

\* a reschedule of a day with activities that failed and resolved to its input
C8_Witness ==
    /\ Recalculated
    /\ last.activities # <<>>
    /\ last.response.kind = "json"
    /\ last.response.data.type = "object"
    /\ last.outcome = Resolved(last.activities)

ParsedUpdates == last.response.kind = "json" /\ last.response.data.type = "array"

HasUpdate(act) ==
    \E k \in 1..Len(last.response.data.items) :
        /\ last.response.data.items[k].kind = "object"
        /\ Read(last.response.data.items[k].id) = Read(act.id)

\* C9: reschedule merge frame. For a text that parses to an array of updates the
\* result has the length and the id order of the input, each activity differs from
\* the input activity of its position in time and transportToNext at most, and an
\* activity with no update for its id is returned unchanged.
C9_MergeFrame ==
    (Recalculated /\ ParsedUpdates) =>
        /\ last.outcome.status = "resolved"
        /\ Len(last.outcome.value) = Len(last.activities)
        /\ \A k \in 1..Len(last.activities) :
              /\ \A f \in ActivityFields \ {"time", "transportToNext"} :
                    last.outcome.value[k][f] = last.activities[k][f]
              /\ ~HasUpdate(last.activities[k])
                    => last.outcome.value[k] = last.activities[k]

\* a reschedule that moved one activity, whose update also carried a title, and left
\* the other, which had no update, alone
C9_Witness ==
    /\ Recalculated
    /\ ParsedUpdates
    /\ Len(last.activities) = 2
    /\ HasUpdate(last.activities[1])
    /\ last.response.data.items[1].title # Absent
    /\ last.outcome.value[1].time # last.activities[1].time
    /\ ~HasUpdate(last.activities[2])

\* C10: never-throw analysis. analyzeSocialContent always resolves to a wishlist
\* item, and when the completion call throws, the item's analysis is the placeholder.
C10_NeverThrows ==
    last.op = "analyzeSocialContent" =>
        /\ last.outcome.status = "resolved"
        /\ last.response.kind = "throws" => last.outcome.value.analysis = Placeholder

\* C11: placeholder on parse failure. When the text of the completion is empty or
\* does not parse as JSON, analyzeSocialContent resolves to a wishlist item with the
\* input content and exactly the analysis
\* {possibleName: 'Unknown Spot', summary: 'Could not analyze', tags: []}.
C11_PlaceholderOnParseFailure ==
    (last.op = "analyzeSocialContent" /\ last.response.kind \in {"empty", "unparseable"}) =>
        /\ last.outcome.status = "resolved"
        /\ last.outcome.value.content = last.content
        /\ last.outcome.value.analysis =
              [possibleName |-> "Unknown Spot", summary |-> "Could not analyze",
               tags |-> <<>>]

\* an analysis of a pasted link for which the completion's text did not parse
C11_Witness ==
    /\ last.op = "analyzeSocialContent"
    /\ last.response.kind = "unparseable"
    /\ last.content = "https://insta/p/1"
    /\ last.outcome.status = "resolved"
    /\ last.outcome.value.type = "url"

-----------------------------------------------------------------------------
(* Properties of the failures of generateItinerary and refineItinerary *)

ServiceCompleted == last.op \in {"generate", "refine"}

\* C12: fatal errors of generate and refine. generateItinerary and refineItinerary
\* reject when the text of the completion is empty and when the sanitized text is
\* not valid JSON, and no itinerary is returned.
C12_FatalErrors ==
    (ServiceCompleted /\ last.response.kind \in {"empty", "unparseable"}) =>
        /\ last.outcome.status = "rejected"
        /\ last.outcome.error = IF last.response.kind = "empty"
                                THEN "No response from AI" ELSE "SyntaxError"
        /\ last.stored = Null

\* a refinement of a displayed itinerary for which the completion's text was no JSON
C12_Witness ==
    /\ last.op = "refine"
    /\ last.response.kind = "unparseable"
    /\ last.outcome.status = "rejected"
    /\ Activities(last.prior) # <<>>

\* C13: required-field validation. generateItinerary and refineItinerary fail, and
\* return no itinerary, whenever the parsed JSON lacks the top-level field
\* destination or the top-level field days.
C13_RequiredFields ==
    (/\ ServiceCompleted
     /\ last.response.kind = "json"
     /\ \/ ~HasDays(last.response.data)
        \/ Read(last.response.data.destination) = Undefined) =>
        /\ last.outcome.status = "rejected"
        /\ last.stored = Null

\* C14: prior state untouched on failure. When generateItinerary or refineItinerary
\* rejects, the handler changes neither the displayed itinerary nor the saved plans,
\* from its start to its end, and isLoading / isRefining is false when it ends.
C14_FailureLeavesState ==
    [][/\ (inflight = NoCall /\ inflight' # NoCall) =>
              /\ itinerary' = itinerary
              /\ savedPlans' = savedPlans
              /\ localStorage' = localStorage
       /\ (inflight # NoCall /\ inflight' = NoCall /\ last'.outcome.status = "rejected") =>
              /\ itinerary' = itinerary
              /\ savedPlans' = savedPlans
              /\ localStorage' = localStorage
              /\ inflight.op = "generate" => ~isLoading'
              /\ inflight.op = "refine" => ~isRefining']_vars

\* a refinement of a displayed and saved itinerary has failed
C14_Witness ==
    /\ last.op = "refine"
    /\ last.outcome.status = "rejected"
    /\ itinerary = last.prior
    /\ Activities(itinerary) # <<>>
    /\ savedPlans # <<>>
    /\ ~isRefining

-----------------------------------------------------------------------------
(* Properties of a refinement and a reorder that overlap *)

\* the call that has just completed wrote its result, and the other call, started
\* from the same itinerary, had completed while it was awaited
LaterOfTwo ==
    /\ last.op \in {"refine", "reorder"}
    /\ last.stored # Null
    /\ last.previous.op \in {"refine", "reorder"}
    /\ last.previous.op # last.op
    /\ last.previous.prior = last.prior

\* C15: unserialized write-back. When a refinement and a reorder started from the
\* same itinerary overlap, the itinerary displayed after both have completed is the
\* result of the one that completed later, made from the itinerary both started
\* from and holding nothing of the result of the one that completed earlier.
C15_LaterCallWins ==
    LaterOfTwo =>
        /\ itinerary = last.stored
        /\ last.op = "reorder" =>
              /\ Len(itinerary.days) = Len(last.prior.days)
              /\ itinerary.days[last.dayIndex].activities = last.outcome.value
              /\ \A i \in 1..Len(itinerary.days) :
                    i # last.dayIndex => itinerary.days[i] = last.prior.days[i]
              /\ \A f \in {"id", "destination", "logistics", "wishlist"} :
                    itinerary[f] = last.prior[f]
        /\ last.op = "refine" =>
              itinerary = [refineItinerary(last.prior, last.request, last.response).value
                              EXCEPT !.id = last.prior.id]

\* a reorder completed after a refinement that had changed the itinerary's days
C15_Witness ==
    /\ LaterOfTwo
    /\ last.op = "reorder"
    /\ last.previous.stored # Null
    /\ Len(last.previous.stored.days) # Len(last.prior.days)
    /\ itinerary # last.previous.stored

-----------------------------------------------------------------------------
(* Properties of cleanJson *)

Cleaned == last.op = "cleanJson"

Fences(text) == {k \in 1..Len(text) : text[k] = Fence}

\* the text has a fenced block: an opening fence and a fence that closes it
HasBlock(text) == Cardinality(Fences(text)) >= 2

\* what the first fenced block holds: the text between its opening fence, with the
\* json tag when one follows, and the next fence, without the line breaks around it
FirstBlock(text) ==
    LET open == CHOOSE k \in Fences(text) : \A m \in Fences(text) : k <= m
        from == IF open < Len(text) /\ text[open + 1] = Tag THEN open + 2 ELSE open + 1
        close == CHOOSE k \in Fences(text) \ {open} : \A m \in Fences(text) \ {open} : k <= m
    IN  TrimText(SubSeq(text, from, close - 1))

\* C16: fence stripping. Whenever the text holds a fenced block, with or without
\* the json tag, cleanJson returns the trimmed interior of the first block and
\* nothing else; for {"a":1} in a json fence it returns exactly {"a":1}.
C16_FenceStripping ==
    Cleaned =>
        /\ HasBlock(last.text) => last.result = FirstBlock(last.text)
        /\ last.text = FencedObject =>
              last.result = <<"{", Quote, "a", Quote, ":", "1", "}">>

At(text, token) == {k \in 1..Len(text) : text[k] = token}

\* the text has an open before a later close
HasSpan(text, open, close) ==
    \E i \in At(text, open), j \in At(text, close) : i < j

\* from the first open to the last close
FirstToLast(text, open, close) ==
    SubSeq(text,
           CHOOSE i \in At(text, open) : \A m \in At(text, open) : i <= m,
           CHOOSE j \in At(text, close) : \A m \in At(text, close) : m <= j)

\* a text with one fence at most, without its fence marker
WithoutMarker(text) ==
    IF Fences(text) = {} THEN text
    ELSE LET k == CHOOSE m \in Fences(text) : TRUE
             after == IF k < Len(text) /\ text[k + 1] = Tag THEN k + 2 ELSE k + 1
         IN  SubSeq(text, 1, k - 1) \o SubSeq(text, after, Len(text))

\* C17: span priority. For a text with no fenced block cleanJson returns the span
\* from the first '[' to the last ']' whenever a '[' comes before a later ']', braces
\* in the text or not; the span from the first '{' to the last '}' only when there is
\* no such bracket span; and the text without fence markers, trimmed, when there is
\* neither.
C17_SpanPriority ==
    (Cleaned /\ ~HasBlock(last.text)) =>
        last.result =
            IF HasSpan(last.text, "[", "]") THEN FirstToLast(last.text, "[", "]")
            ELSE IF HasSpan(last.text, "{", "}") THEN FirstToLast(last.text, "{", "}")
            ELSE TrimText(WithoutMarker(last.text))

\* an array inside an object, with no fence: the array alone is returned
C17_Witness ==
    /\ Cleaned
    /\ last.text = <<"{", "[", "a", "]", "}">>
    /\ last.result = <<"[", "a", "]">>

\* C18: sanitizer idempotence. For every text that is clean JSON already (an
\* object, an array, a string or a scalar, strings that hold brackets, braces or
\* fence markers included), cleanJson of cleanJson of the text is cleanJson of the
\* text.
C18_Idempotence ==
    (Cleaned /\ last.text \in JsonTexts) => last.again = last.result

-----------------------------------------------------------------------------
(* Properties of generateItinerary *)

GenerateResolved == last.op = "generate" /\ last.outcome.status = "resolved"

\* C19: post-parse normalization in generate. In the itinerary generateItinerary
\* returns, every activity has feedback 'neutral' whatever the service sent, is
\* unlocked when the service sent no lock, is not mandatory, and has a newly
\* generated id when the service sent none.
C19_Normalization ==
    GenerateResolved =>
        LET sent == Activities(last.response.data)
            made == Activities(last.outcome.value)
        IN  /\ Len(made) = Len(sent)
            /\ \A k \in 1..Len(made) :
                  /\ made[k].feedback = "neutral"
                  /\ Read(sent[k].isLocked) = Undefined => made[k].isLocked = JsFalse
                  /\ made[k].isMandatory = JsFalse
                  /\ Read(sent[k].id) = Undefined => made[k].id \in GeneratedIds

\* an itinerary was generated from a candidate with an activity that came with
\* feedback, lock and mandatory flag, and an activity that came without id and lock
C19_Witness ==
    /\ GenerateResolved
    /\ \E k \in 1..Len(Activities(last.response.data)) :
          /\ Activities(last.response.data)[k].feedback = "like"
          /\ Activities(last.response.data)[k].isMandatory = JsTrue
    /\ \E k \in 1..Len(Activities(last.response.data)) :
          /\ Activities(last.response.data)[k].id = Absent
          /\ Activities(last.response.data)[k].isLocked = Absent
          /\ Activities(last.outcome.value)[k].id \in GeneratedIds

\* C20: generate re-attaches user data. The itinerary generateItinerary(input)
\* returns has the logistics of the input and an empty wishlist, whatever the
\* completion service returned for the two.
C20_Reattach ==
    GenerateResolved =>
        /\ last.outcome.value.logistics = last.input.logistics
        /\ last.outcome.value.wishlist = <<>>

\* an itinerary was generated from a candidate with logistics and a wishlist of its own
C20_Witness ==
    /\ GenerateResolved
    /\ last.response.data.logistics # last.input.logistics
    /\ last.response.data.wishlist # <<>>
    /\ last.stored.logistics = last.input.logistics

-----------------------------------------------------------------------------
(* The request each operation of the service sends: the config object of its    *)
(* generateContent or chats.create call.  tools is the list of tool objects,    *)
(* each the set of its keys.                                                    *)

GenerateConfig ==
    [responseMimeType |-> Absent, responseSchema |-> Absent,
     tools |-> <<{"googleMaps", "googleSearch"}>>]

RefineConfig ==
    [responseMimeType |-> Absent, responseSchema |-> Absent,
     tools |-> <<{"googleMaps"}, {"googleSearch"}>>]

RecalculateConfig ==
    [responseMimeType |-> Absent, responseSchema |-> Absent,
     tools |-> <<{"googleMaps"}>>]

AnalyzeConfig ==
    [responseMimeType |-> "application/json", responseSchema |-> Absent,
     tools |-> <<{"googleSearch"}>>]

ChatConfig ==
    [responseMimeType |-> Absent, responseSchema |-> Absent,
     tools |-> <<{"googleMaps"}, {"googleSearch"}>>]

\* what the user writes to the chat agent
Messages == {"where to eat tonight", "is the castle open on mondays"}

NoRequest == [op |-> "none"]

\* generateItinerary has built its prompt and awaits the completion service
GenerateRequest(input) ==
    /\ inflight = NoRequest
    /\ inflight' = [op |-> "generate", arguments |-> [input |-> input],
                    config |-> GenerateConfig]
    /\ last' = NoLast
    /\ UNCHANGED <<itinerary, isLoading, isRefining, refinePrompt, savedPlans, user,
                   localStorage, cloud, reschedule, cloudLoad>>

\* refineItinerary awaits the completion service
RefineRequest(currentItinerary, userRequest) ==
    /\ inflight = NoRequest
    /\ inflight' = [op |-> "refine", arguments |-> [currentItinerary |-> currentItinerary,
                                                    userRequest |-> userRequest],
                    config |-> RefineConfig]
    /\ last' = NoLast
    /\ UNCHANGED <<itinerary, isLoading, isRefining, refinePrompt, savedPlans, user,
                   localStorage, cloud, reschedule, cloudLoad>>

\* recalculateDaySchedule awaits the completion service
RecalculateRequest(activities, previousLocation) ==
    /\ inflight = NoRequest
    /\ inflight' = [op |-> "reschedule", arguments |-> [activities |-> activities,
                                                        previousLocation |-> previousLocation],
                    config |-> RecalculateConfig]
    /\ last' = NoLast
    /\ UNCHANGED <<itinerary, isLoading, isRefining, refinePrompt, savedPlans, user,
                   localStorage, cloud, reschedule, cloudLoad>>

\* analyzeSocialContent awaits the completion service
AnalyzeRequest(content) ==
    /\ inflight = NoRequest
    /\ inflight' = [op |-> "analyze", arguments |-> [content |-> content],
                    config |-> AnalyzeConfig]
    /\ last' = NoLast
    /\ UNCHANGED <<itinerary, isLoading, isRefining, refinePrompt, savedPlans, user,
                   localStorage, cloud, reschedule, cloudLoad>>

\* chatWithAgent awaits the answer to chat.sendMessage
ChatRequest(message) ==
    /\ inflight = NoRequest
    /\ inflight' = [op |-> "chat", arguments |-> [message |-> message],
                    config |-> ChatConfig]
    /\ last' = NoLast
    /\ UNCHANGED <<itinerary, isLoading, isRefining, refinePrompt, savedPlans, user,
                   localStorage, cloud, reschedule, cloudLoad>>

\* the completion service has answered
RequestAnswered ==
    /\ inflight # NoRequest
    /\ last' = [op |-> "answered", request |-> inflight]
    /\ inflight' = NoRequest
    /\ UNCHANGED <<itinerary, isLoading, isRefining, refinePrompt, savedPlans, user,
                   localStorage, cloud, reschedule, cloudLoad>>

NextRequests ==
    \/ \E input \in TripInputs : GenerateRequest(input)
    \/ \E currentItinerary \in PriorItineraries, userRequest \in Prompts :
          RefineRequest(currentItinerary, userRequest)
    \/ \E activities \in SeqsUpTo(ScheduledActivities, MaxActs),
          previousLocation \in PreviousLocations :
          RecalculateRequest(activities, previousLocation)
    \/ \E content \in Contents : AnalyzeRequest(content)
    \/ \E message \in Messages : ChatRequest(message)
    \/ RequestAnswered

SpecRequests == Init /\ [][NextRequests]_vars

\* the request asks for the structured-output mode
Structured(config) ==
    config.responseMimeType = "application/json" \/ config.responseSchema # Absent

\* C21: structured output and tools are never combined. No request issued by
\* generate, refine, reschedule, analyze or chat asks for the structured-output
\* mode (responseMimeType 'application/json' or a responseSchema) together with a
\* non-empty tools list.
C21_NeverBoth ==
    inflight # NoRequest =>
        ~(Structured(inflight.config) /\ inflight.config.tools # <<>>)

-----------------------------------------------------------------------------
(* A session with an account: the user signs in and out through the CloudSetup  *)
(* dialog, which is reachable at any time, and plans one trip after another     *)

\* the user object of the session
Users == {[id |-> "u1"]}

\* two trips are planned at different times
PlanTimestamps == {"1730000000000", "1730000000001"}

\* a generation fails, or returns a one-day plan
PlanResponses ==
    [kind : {"throws"}, data : {NoData}]
        \cup [kind : {"json"},
              data : {Candidate("id-by-AI", DaysOf(<< <<PlainActivity("a1")>> >>))}]

\* the logo and then the Plan Trip button: the form is shown again
PlanTrip ==
    /\ itinerary # Null
    /\ itinerary' = Null
    /\ last' = NoLast
    /\ UNCHANGED <<isLoading, isRefining, refinePrompt, savedPlans, user, localStorage,
                   cloud, inflight, reschedule, cloudLoad>>

\* onLoginSuccess(u): setUser(u); loadCloudPlans() up to its await.  The sign-in
\* form is shown while nobody is signed in; one load is awaited at a time.
OnLoginSuccess(u) ==
    /\ user = NoUser
    /\ cloudLoad = NoCall
    /\ user' = u
    /\ cloudLoad' = [op |-> "loadCloudPlans"]
    /\ last' = NoLast
    /\ UNCHANGED <<itinerary, isLoading, isRefining, refinePrompt, savedPlans,
                   localStorage, cloud, inflight, reschedule>>

\* data.map(row => row.trip_data) of fetchItinerariesFromCloud
FetchItinerariesFromCloud(rows) == [k \in 1..Len(rows) |-> rows[k].trip_data]

\* loadCloudPlans from the await on: the fetched plans become the list, a failed
\* fetch is logged
LoadCloudPlansDone(fetched) ==
    /\ cloudLoad # NoCall
    /\ IF fetched
       THEN savedPlans' = FetchItinerariesFromCloud(cloud)
       ELSE UNCHANGED savedPlans
    /\ cloudLoad' = NoCall
    /\ last' = NoLast
    /\ UNCHANGED <<itinerary, isLoading, isRefining, refinePrompt, user, localStorage,
                   cloud, inflight, reschedule>>

\* onLogout(), called by the dialog after signOut()
OnLogout ==
    /\ user # NoUser
    /\ user' = NoUser
    /\ savedPlans' = <<>>
    /\ last' = NoLast
    /\ UNCHANGED <<itinerary, isLoading, isRefining, refinePrompt, localStorage, cloud,
                   inflight, reschedule, cloudLoad>>

NextAuth ==
    \/ \E input \in TripInputs : HandleCreateItinerary(input)
    \/ \E response \in PlanResponses, randoms \in [1..MaxActs -> {"g1"}],
          now \in PlanTimestamps :
           HandleCreateItineraryDone(response, randoms, now)
    \/ PlanTrip
    \/ \E u \in Users : OnLoginSuccess(u)
    \/ \E fetched \in BOOLEAN : LoadCloudPlansDone(fetched)
    \/ OnLogout

SpecAuth == Init /\ [][NextAuth]_vars

-----------------------------------------------------------------------------
(* Properties of saveToHistory *)

\* the step is the completion of handleCreateItinerary, which called
\* saveToHistory(last'.stored) from the render the handler was started in
SavedByCreate ==
    /\ inflight.op = "generate"
    /\ inflight' = NoCall
    /\ last'.stored # Null

-----------------------------------------------------------------------------
(* Locked activities under recalculateDaySchedule *)

\* C23: locked time is fixed under rescheduling. For every input list and every
\* completion text, the list recalculateDaySchedule returns gives each activity
\* whose isLocked is true the time it had in the input.
C23_LockedTimeFixed ==
    (Recalculated /\ last.outcome.status = "resolved") =>
        /\ Len(last.outcome.value) = Len(last.activities)
        /\ \A k \in 1..Len(last.activities) :
              last.activities[k].isLocked = JsTrue
                  => last.outcome.value[k].time = last.activities[k].time

-----------------------------------------------------------------------------
(* Edits while a refinement is awaited: the buttons of an activity card stay    *)
(* enabled while isRefining, so handleUpdateActivity runs between the two       *)
(* halves of handleRefine                                                       *)

NextEdit ==
    \/ HandleRefine
    \/ \E dayIndex \in 1..MaxDays, activityId \in ActivityIds, updates \in ActivityUpdates :
           HandleUpdateActivity(dayIndex, activityId, updates)
    \/ \E response \in SessionResponses : HandleRefineDone(response)

SpecEdit == InitRefine /\ [][NextEdit]_vars

\* the fields the user sets through the buttons and the notes of an activity card
EditedFields == {"isLocked", "isMandatory", "userNotes", "feedback"}

\* the displayed activity differs, in a field the user sets, from the activity of
\* its id in the itinerary the awaited handleRefine was started with
EditedInFlight(act) ==
    /\ Read(act.id) # Undefined
    /\ \E old \in ActivitySet(inflight.itinerary) :
          /\ Read(old.id) = Read(act.id)
          /\ \E f \in EditedFields : old[f] # act[f]
          /\ \A f \in ActivityFields \ EditedFields : old[f] = act[f]

\* C24: edits made during an in-flight refine survive. When handleRefine writes
\* its result back, an activity the user edited through handleUpdateActivity
\* while the call was awaited, and which the result still holds, shows the
\* edited isLocked, isMandatory, userNotes and feedback.
C24_EditsSurvive ==
    [][(inflight.op = "refine" /\ inflight' = NoCall /\ last'.stored # Null) =>
          \A act \in ActivitySet(itinerary) :
              EditedInFlight(act) =>
                  \A new \in ActivitySet(itinerary') :
                      Read(new.id) = Read(act.id) =>
                          \A f \in EditedFields : new[f] = act[f]]_vars

-----------------------------------------------------------------------------
(* The busy flag while calls overlap *)

\* a refineItinerary or recalculateDaySchedule call of a handler awaits its response
CallAwaited == inflight.op = "refine" \/ reschedule.op = "reorder"

\* C25: the busy flag covers every in-flight call. While a refineItinerary or
\* recalculateDaySchedule call started by a handler still awaits its response,
\* isRefining is true; once all such calls have completed, isRefining is false.
C25_BusyFlag == isRefining <=> CallAwaited

-----------------------------------------------------------------------------
(* Refinements asked for from the itinerary view *)

\* what the user types into the AI Adjustment box of ItineraryView
ViewPrompts == {"add dinner", "swap breakfast for brunch"}

\* handleRefineSubmit, and the onRefineRequest the App passes to the view:
\* setRefinePrompt(prompt); handleRefine().  handleRefine is the function of the
\* current render and reads this render's refinePrompt; it runs up to its await.
OnRefineRequest(prompt) ==
    /\ itinerary # Null
    /\ Trim(prompt) # ""
    /\ inflight = NoCall
    /\ refinePrompt' = prompt
    /\ IF Trim(refinePrompt) # ""
       THEN /\ isRefining' = TRUE
            /\ inflight' = [op |-> "refine", itinerary |-> itinerary,
                            refinePrompt |-> refinePrompt,
                            savedPlans |-> savedPlans, user |-> user]
       ELSE UNCHANGED <<isRefining, inflight>>
    /\ last' = [op |-> "onRefineRequest", prompt |-> prompt]
    /\ UNCHANGED <<itinerary, isLoading, savedPlans, user, localStorage, cloud,
                   reschedule, cloudLoad>>

NextView ==
    \/ \E prompt \in Prompts : SetRefinePrompt(prompt)
    \/ \E prompt \in ViewPrompts : OnRefineRequest(prompt)
    \/ HandleRefine
    \/ \E response \in SessionResponses : HandleRefineDone(response)

SpecView == InitRefine /\ [][NextView]_vars

\* C26: a refine request from the itinerary view is executed with its own prompt.
\* After onRefineRequest(prompt) with a non-blank prompt, whatever refinePrompt
\* was before, a refineItinerary call is awaited whose arguments are the
\* displayed itinerary and that prompt.
C26_OwnPrompt ==
    last.op = "onRefineRequest" =>
        /\ inflight.op = "refine"
        /\ inflight.itinerary = itinerary
        /\ inflight.refinePrompt = last.prompt

-----------------------------------------------------------------------------
(* cleanJson on a response that is a bare JSON object *)

\* C27: an unfenced JSON object passes the sanitizer intact. For every text x
\* that is exactly one JSON object, with no fences and no prose around it, in
\* particular an itinerary object whose days are a non-empty array, cleanJson(x)
\* is x.
C27_ObjectIntact ==
    (Cleaned /\ last.text \in ObjectTexts) => last.result = last.text

-----------------------------------------------------------------------------
(* The argument of refineItinerary after the call *)

\* C28: refine does not modify its input. After refineItinerary(current, request)
\* has resolved or rejected, current, each of its days and each of its activities
\* have in every field the value they had before the call, for every candidate
\* the completion service returns.
C28_InputUnchanged ==
    last.op = "refine" => last.input = last.prior

\* a refinement resolved whose candidate reused the id of a locked activity with
\* other field values, so that the merge wrote the old activity over the candidate's
C28_Witness ==
    /\ RefineResolved
    /\ \E old \in ActivitySet(last.prior) :
          /\ old.isLocked = JsTrue
          /\ \E k \in 1..Len(Activities(last.response.data)) :
                /\ Read(Activities(last.response.data)[k].id) = Read(old.id)
                /\ Activities(last.response.data)[k].time # old.time
                /\ Activities(last.outcome.value)[k].time = old.time
    /\ last.input = last.prior

-----------------------------------------------------------------------------
(* The saved-plan list *)

\* C29: saved-plan list invariant. The list starts without duplicate ids; after
\* any sequence of saveToHistory calls it holds no two plans with the same id,
\* and after a call the plan that was passed to it is the first element.
C29_SavedPlans ==
    /\ \A i, j \in 1..Len(savedPlans) :
          savedPlans[i].id = savedPlans[j].id => i = j
    /\ (last.op \in {"generate", "refine", "reorder"} /\ last.stored # Null) =>
          /\ savedPlans # <<>>
          /\ savedPlans[1] = last.stored

\* a second trip was planned and saved: it heads the list, before the first one
C29_Witness ==
    /\ last.op = "generate"
    /\ last.stored # Null
    /\ Len(savedPlans) = 2
    /\ savedPlans[1] = last.stored
    /\ savedPlans[2].id # last.stored.id

-----------------------------------------------------------------------------
(* Plans in local storage *)

\* the ids of the plans held under 'cicerone_saved_plans'
StoredIds ==
    IF localStorage = NoItem THEN {}
    ELSE {localStorage.value[k].id : k \in 1..Len(localStorage.value)}

\* C30: locally stored plans are never lost. A plan that is in local storage
\* stays in local storage through every later step: sign-in, cloud plan load,
\* sign-out, and unauthenticated saveToHistory calls for other plans.
C30_NeverLost ==
    [][StoredIds \subseteq StoredIds']_vars

====
